---------------------------- MODULE Spec2Model ----------------------------
(***************************************************************************)
(* A model of the icarus share-based-payment valuation code:               *)
(*   - services/strategy.py   ModelSelectorService.select_model            *)
(*   - core/domain.py         Tranche, PlanAnalysisResult                  *)
(*   - engines/financial.py   bs_call, the Chaffe lockup discount and the  *)
(*                            CRR lattice binomial_custom_optimized        *)
(*   - ui/app_interface.py    IFRS2App._execute_calc                       *)
(*   - ui/components/valuation_view.py  _execute_calc_restore              *)
(*                                                                         *)
(* Python floats are modelled as fixed-point integers: the float x is the  *)
(* integer x * Scale, arithmetic truncates towards zero.  A float that the *)
(* code leaves as NaN is the value NaN below.                              *)
(***************************************************************************)
EXTENDS Integers, Sequences, FiniteSets, TLC

VARIABLES
    analysis,       \* the PlanAnalysisResult object handed to select_model
    sel_input,      \* the same object as it was before the first call
    sel_status,     \* "new" | "returned" | "raised" : outcome of the last call
    sel_calls,      \* number of select_model calls applied to the object
    bs_args,        \* arguments of the last FinancialMath.bs_call
    bs_ret,         \* its return value
    bs_path,        \* the return statement it left by
    ld_args,        \* arguments of the last _calculate_lockup_discount_numba
    ld_ret,         \* its return value
    ld_path,        \* the return statement it left by
    lat_args,       \* arguments of the running binomial_custom_optimized call
    lat_raw_m,      \* the multiple M the caller was given for that call
    lat_caller,     \* who made the call: _execute_calc, or a direct application
    lat_grid,       \* the locals the call set before its loops
    lat_pc,         \* position of the call: idle, loop, returned, raised
    lat_i,          \* step index of the layer held in lat_nodes
    lat_nodes,      \* option_values of that layer, with the rule that set each
    lat_forced,     \* some node of the call so far was forced to exercise
    lat_ret,        \* the value the call returned
    pass_handler,   \* the pricing pass run: _execute_calc or _execute_calc_restore
    pass_inputs,    \* its inputs, one item per tranche
    pass_model,     \* its model
    pass_pc,        \* idle, done, or raised when the pass ended in an exception
    res_data,       \* the result rows of the pass
    total_fv,       \* the total it reports
    pass_errors,    \* tranches whose pricing failed and was reported (st.error)
    calc_results,   \* AppState: last_calc_results
    st_analysis,    \* AppState: analysis_result (None or a PlanAnalysisResult)
    st_tranches,    \* AppState: tranches, the editable list
    st_stale,       \* the analysis or the tranche list changed after the results were stored
    report_tab,     \* what render_report_tab showed in the current run of the page
    rep_args,       \* the arguments of generate_report_context
    rep_context     \* the context it returned

sel_vars == <<analysis, sel_input, sel_status, sel_calls>>

bs_vars == <<bs_args, bs_ret, bs_path>>

ld_vars == <<ld_args, ld_ret, ld_path>>

lat_vars == <<lat_args, lat_raw_m, lat_caller, lat_grid, lat_pc, lat_i, lat_nodes, lat_forced, lat_ret>>

pass_vars ==
    <<pass_handler, pass_inputs, pass_model, pass_pc, res_data, total_fv, pass_errors,
      calc_results>>

st_vars == <<st_analysis, st_tranches, st_stale, report_tab>>

rep_vars == <<rep_args, rep_context>>

vars == <<sel_vars, bs_vars, ld_vars, lat_vars, pass_vars, st_vars, rep_vars>>

-----------------------------------------------------------------------------
(* Bounds of the model.                                                    *)

\* longest tranche list of a plan
MaxTranches == 2
\* how many times select_model is applied to one plan object
MaxCalls == 2

-----------------------------------------------------------------------------
(* Fixed-point arithmetic standing for Python float arithmetic.            *)

\* one unit of the fixed-point representation is 1/Scale
Scale == 100 * 100

Abs(x) == IF x < 0 THEN -x ELSE x

Sgn(x) == IF x < 0 THEN -1 ELSE 1

\* max, min, product, quotient, exp, log, sqrt and the normal cdf are applied
\* as functions of the values of their arguments: an argument is evaluated
\* once, as in a call, however often the body names it.
MaxOf == [a \in Int, b \in Int |-> IF a >= b THEN a ELSE b]

Max(a, b) == MaxOf[a, b]

MinOf == [a \in Int, b \in Int |-> IF a <= b THEN a ELSE b]

Min(a, b) == MinOf[a, b]

\* a * b for naturals, split so that no intermediate product overflows
MulNat(a, b) ==
    LET a1 == a \div Scale
        a0 == a % Scale
        b1 == b \div Scale
        b0 == b % Scale
    IN  a1 * b1 * Scale + a1 * b0 + a0 * b1 + (a0 * b0) \div Scale

\* the float product a * b
Product == [a \in Int, b \in Int |-> Sgn(a) * Sgn(b) * MulNat(Abs(a), Abs(b))]

Mul(a, b) == Product[a, b]

\* a / b for naturals, b > 0
DivNat(a, b) == (a \div b) * Scale + ((a % b) * Scale) \div b

\* the float quotient a / b, b # 0
Quotient == [a \in Int, b \in Int |-> Sgn(a) * Sgn(b) * DivNat(Abs(a), Abs(b))]

Div(a, b) == Quotient[a, b]

\* an integer n as a float
Num(n) == n * Scale

\* the decimal literal n / 10^k for k = 1, 2, 4
Tenths(n) == n * (Scale \div 10)

Hundredths(n) == n * (Scale \div 100)


\* a float that is not a number (the result of inf - inf)
NaN == -(2000000 * 1000)

IsNaN(x) == x = NaN

\* floor of the square root of a natural
RECURSIVE ISqrt(_)
ISqrt(n) ==
    IF n < 2 THEN n
    ELSE LET s == 2 * ISqrt(n \div 4)
         IN  IF (s + 1) * (s + 1) <= n THEN s + 1 ELSE s

\* np.sqrt(x), x >= 0
SqrtOf == [x \in Int |-> ISqrt(x * Scale)]

Sqrt(x) == SqrtOf[x]

\* e as a float
EulerE == 27183

\* e^n for a natural n
RECURSIVE ExpInt(_)
ExpInt(n) == IF n = 0 THEN Scale ELSE Mul(EulerE, ExpInt(n - 1))

\* the series of e^f for 0 <= f < 1
ExpFrac(f) ==
    LET t1 == f
        t2 == Mul(t1, f) \div 2
        t3 == Mul(t2, f) \div 3
        t4 == Mul(t3, f) \div 4
        t5 == Mul(t4, f) \div 5
        t6 == Mul(t5, f) \div 6
        t7 == Mul(t6, f) \div 7
    IN  Scale + t1 + t2 + t3 + t4 + t5 + t6 + t7

\* the largest argument whose exponential the fixed-point range holds
ExpArgMax == Num(12)

\* np.exp(x) for -ExpArgMax <= x <= ExpArgMax; 0 below that range
ExpOf ==
    [x \in Int |->
        IF x >= 0 THEN Mul(ExpInt(x \div Scale), ExpFrac(x % Scale))
        ELSE IF -x > ExpArgMax THEN 0
        ELSE Div(Scale, Mul(ExpInt((-x) \div Scale), ExpFrac((-x) % Scale)))]

Exp(x) == ExpOf[x]

\* the series of ln(x) for 1 <= x < e: 2 atanh((x - 1) / (x + 1))
LnSeries(x) ==
    LET z == Div(x - Scale, x + Scale)
        z2 == Mul(z, z)
        z3 == Mul(z, z2)
        z5 == Mul(z3, z2)
        z7 == Mul(z5, z2)
        z9 == Mul(z7, z2)
    IN  2 * (z + z3 \div 3 + z5 \div 5 + z7 \div 7 + z9 \div 9)

RECURSIVE LnGe1(_)
LnGe1(x) == IF x >= EulerE THEN Scale + LnGe1(Div(x, EulerE)) ELSE LnSeries(x)

\* np.log(x), x > 0
LnOf == [x \in Int |-> IF x >= Scale THEN LnGe1(x) ELSE -LnGe1(Div(Scale, x))]

Ln(x) == LnOf[x]

\* math.erf(x) for x >= 0 (Abramowitz-Stegun 7.1.26)
ErfPos(x) ==
    IF x >= Num(3) THEN Scale
    ELSE LET t == Div(Scale, Scale + Mul(3276, x))
             poly == Mul(t, 2549 + Mul(t, -2845 + Mul(t, 14214
                        + Mul(t, -14532 + Mul(t, 10614)))))
         IN  Min(Scale, Scale - Mul(poly, Exp(-Mul(x, x))))

\* math.erf(x): an odd function
Erf(x) == IF x >= 0 THEN ErfPos(x) ELSE -ErfPos(-x)

\* sqrt(2) as the literal 1.41421356
Sqrt2 == 14142

\* _numba_norm_cdf(x) and scipy.stats.norm.cdf(x)
NormCdfOf == [x \in Int |-> (Scale + Erf(Div(x, Sqrt2))) \div 2]

NormCdf(x) == NormCdfOf[x]

-----------------------------------------------------------------------------
(* core/domain.py                                                          *)

PricingModelType == {"MONTE_CARLO", "BINOMIAL", "BLACK_SCHOLES_GRADED", "RSU", "UNDEFINED"}

SettlementType == {"EQUITY_SETTLED", "CASH_SETTLED", "HYBRID", "UNDEFINED"}

\* Optional[float]: None is the empty sequence, a float x is <<x>>
None == << >>

Some(x) == <<x>>

IsNone(o) == o = << >>

\* Python truthiness of an Optional[float]: None and 0.0 are falsy
Truthy(o) == o # << >> /\ o[1] # 0

RECURSIVE SumSeq(_)
SumSeq(s) == IF s = << >> THEN 0 ELSE Head(s) + SumSeq(Tail(s))

\* PlanAnalysisResult.is_liability
is_liability(a) == a.settlement_type \in {"CASH_SETTLED", "HYBRID"}

\* PlanAnalysisResult.get_avg_vesting
get_avg_vesting(a) ==
    IF a.tranches = << >> THEN Num(3)
    ELSE LET total_prop == SumSeq([i \in DOMAIN a.tranches |-> a.tranches[i].proportion])
         IN  IF total_prop = 0 THEN 0
             ELSE Div(SumSeq([i \in DOMAIN a.tranches |->
                         Mul(a.tranches[i].vesting_date, a.tranches[i].proportion)]),
                      total_prop)

-----------------------------------------------------------------------------
(* services/strategy.py                                                    *)
(* methodology_rationale is a sequence of text fragments: the empty text   *)
(* is << >>, += appends a fragment, "x in text" is fragment membership.    *)

Contains(text, fragment) == \E i \in DOMAIN text : text[i] = fragment

\* the f-string of line 48, one text per settlement_type.value
warning_text(a) == "ATENCAO:" \o a.settlement_type

IsWarning(f) == f \in {"ATENCAO:" \o s : s \in SettlementType}

\* fragments whose upper-cased text contains "MONTE CARLO"
MentionsMonteCarlo(f) ==
    f \in {"ai:monte carlo", "default:monte_carlo",
           "rsu_adjusted:Phantom Shares", "rsu_adjusted:RSU"}

\* a step 0 that appends the accounting warning at every call
Step0_appends_always(a) ==
    IF is_liability(a)
    THEN [a EXCEPT !.methodology_rationale = Append(@, warning_text(a))]
    ELSE a

\* step 0: the accounting warning is appended once
Step0(a) ==
    IF is_liability(a) /\ ~Contains(a.methodology_rationale, warning_text(a))
    THEN [a EXCEPT !.methodology_rationale = Append(@, warning_text(a))]
    ELSE a

\* step 1: market condition
Step1(a) ==
    [a EXCEPT !.model_recommended = "MONTE_CARLO",
              !.methodology_rationale =
                  IF @ = << >> THEN <<"default:monte_carlo">> ELSE @]

\* a zero-strike step that leaves the recommendation it was given
Step2_keeps_recommendation(a) ==
    [a EXCEPT !.methodology_rationale =
                  IF @ = << >> THEN <<"rsu_default:RSU">> ELSE @]

\* step 2: zero strike
Step2(a) ==
    LET term_used == IF a.settlement_type = "CASH_SETTLED"
                     THEN "Phantom Shares" ELSE "RSU"
        r == a.methodology_rationale
    IN  [a EXCEPT !.model_recommended = "RSU",
                  !.methodology_rationale =
                      IF (\E i \in DOMAIN r : MentionsMonteCarlo(r[i]))
                         /\ ~a.has_market_condition
                      THEN <<"rsu_adjusted:" \o term_used>>
                      ELSE IF r = << >> THEN <<"rsu_default:" \o term_used>>
                      ELSE r]

\* line 99: the first tranche decides whether the tranches' expirations are used
UsesTrancheLife(a) == a.tranches # << >> /\ Truthy(a.tranches[1].expiration_date)

\* line 100 multiplies None by a float when a later tranche has no expiration
AvgLifeRaises(a) ==
    UsesTrancheLife(a) /\ \E i \in DOMAIN a.tranches : IsNone(a.tranches[i].expiration_date)

avg_life(a) ==
    IF UsesTrancheLife(a)
    THEN SumSeq([i \in DOMAIN a.tranches |->
                    Mul(a.tranches[i].expiration_date[1], a.tranches[i].proportion)])
    ELSE a.option_life_years

gap_exercicio(a) == avg_life(a) - get_avg_vesting(a)

ia_suggests_binomial(a) == a.model_recommended = "BINOMIAL"

\* the long exercise window criterion, gap_exercicio > 0.5
GapIsLong(a) == gap_exercicio(a) > Tenths(5)

\* the criteria without the recommendation the plan carried
should_use_binomial_ignores_ia(a) ==
    \/ a.has_strike_correction
    \/ GapIsLong(a)
    \/ a.lockup_years > 0

should_use_binomial(a) ==
    \/ ia_suggests_binomial(a)
    \/ a.has_strike_correction
    \/ GapIsLong(a)
    \/ a.lockup_years > 0

\* "{x:.1f}": x rounded to one decimal, as text
Fmt1(x) == ToString((Abs(x) + Scale \div 20) \div (Scale \div 10))

factors(a) ==
    LET f1 == IF a.has_strike_correction THEN <<"correcao">> ELSE << >>
        f2 == IF GapIsLong(a)
              THEN <<"janela~" \o Fmt1(gap_exercicio(a))>> ELSE << >>
        f3 == IF a.lockup_years > 0
              THEN <<"lockup(" \o ToString(a.lockup_years) \o ")">> ELSE << >>
        f123 == f1 \o f2 \o f3
    IN  IF ia_suggests_binomial(a) /\ f123 = << >> THEN <<"ia">> ELSE f123

RECURSIVE Join(_)
Join(fs) == IF fs = << >> THEN "" ELSE Head(fs) \o ";" \o Join(Tail(fs))

\* step 3: the Binomial branch overwrites the rationale
Step3(a) ==
    [a EXCEPT !.model_recommended = "BINOMIAL",
              !.methodology_rationale = <<"binomial:" \o Join(factors(a))>>]

\* step 4: fallback
Step4(a) ==
    [a EXCEPT !.model_recommended = "BLACK_SCHOLES_GRADED",
              !.methodology_rationale =
                  IF @ = << >> THEN <<"default:black_scholes">> ELSE @]

\* a selector that tests the zero strike before the market condition
select_model_strike_first(a0) ==
    LET a == Step0(a0)
    IN  IF a.strike_is_zero THEN [status |-> "returned", obj |-> Step2(a)]
        ELSE IF a.has_market_condition THEN [status |-> "returned", obj |-> Step1(a)]
        ELSE IF AvgLifeRaises(a) THEN [status |-> "raised", obj |-> a]
        ELSE IF should_use_binomial(a) THEN [status |-> "returned", obj |-> Step3(a)]
        ELSE [status |-> "returned", obj |-> Step4(a)]

\* ModelSelectorService.select_model: the outcome and the object as it leaves it
select_model(a0) ==
    LET a == Step0(a0)
    IN  IF a.has_market_condition THEN [status |-> "returned", obj |-> Step1(a)]
        ELSE IF a.strike_is_zero THEN [status |-> "returned", obj |-> Step2(a)]
        ELSE IF AvgLifeRaises(a) THEN [status |-> "raised", obj |-> a]
        ELSE IF should_use_binomial(a) THEN [status |-> "returned", obj |-> Step3(a)]
        ELSE [status |-> "returned", obj |-> Step4(a)]


-----------------------------------------------------------------------------
(* engines/financial.py: the closed-form functions                         *)

\* EPSILON = 1e-9 lies below the resolution: x <= EPSILON is x <= 0
EPSILON == 0

\* np.exp(x) is +inf above this argument (IEEE double)
ExpFloatMax == 7097827

\* _calculate_lockup_discount_numba: the value returned and the return taken.
\* Above ExpFloatMax both exponentials are +inf, the two tests pass,
\* b = v + inf - inf is NaN, b < 0 is false and the result is NaN.
lockup_discount(volatility, lockup_time, stock_price, q) ==
    IF lockup_time <= EPSILON THEN [ret |-> 0, path |-> "lockup"]
    ELSE LET vol_sq_t == Mul(Mul(volatility, volatility), lockup_time)
         IN  IF vol_sq_t > ExpFloatMax THEN [ret |-> NaN, path |-> "formula"]
             ELSE LET term_inner == 2 * (Exp(vol_sq_t) - vol_sq_t - Scale)
                      val_log == Exp(vol_sq_t) - Scale
                  IN  IF term_inner <= EPSILON THEN [ret |-> 0, path |-> "inner"]
                      ELSE IF val_log <= EPSILON THEN [ret |-> 0, path |-> "log"]
                      ELSE LET b == vol_sq_t + Ln(term_inner) - 2 * Ln(val_log)
                           IN  IF b < 0 THEN [ret |-> 0, path |-> "b"]
                               ELSE LET a == Sqrt(b)
                                    IN  [ret |-> Mul(Mul(stock_price, Exp(-Mul(q, lockup_time))),
                                                     NormCdf(a \div 2) - NormCdf((-a) \div 2)),
                                         path |-> "formula"]

\* the standard Black-Scholes-Merton formula of lines 72-80
bs_formula(S, K, T, r, sigma, q) ==
    LET sqrt_T == Sqrt(T)
        d1 == Div(Ln(Div(S, K)) + Mul(r - q + Mul(Scale \div 2, Mul(sigma, sigma)), T),
                  Mul(sigma, sqrt_T))
        d2 == d1 - Mul(sigma, sqrt_T)
    IN  Mul(Mul(S, Exp(-Mul(q, T))), NormCdf(d1)) - Mul(Mul(K, Exp(-Mul(r, T))), NormCdf(d2))

\* a bs_call that tests the strike before the time and the volatility
bs_call_strike_first(S, K, T, r, sigma, q) ==
    IF K <= EPSILON THEN [ret |-> Mul(S, Exp(-Mul(q, T))), path |-> "K"]
    ELSE IF T <= EPSILON THEN [ret |-> Max(S - K, 0), path |-> "T"]
    ELSE IF sigma <= EPSILON
    THEN [ret |-> Max(Mul(S, Exp(-Mul(q, T))) - Mul(K, Exp(-Mul(r, T))), 0), path |-> "sigma"]
    ELSE IF S <= EPSILON THEN [ret |-> 0, path |-> "S"]
    ELSE [ret |-> bs_formula(S, K, T, r, sigma, q), path |-> "formula"]

\* FinancialMath.bs_call: the value returned and the return statement taken
bs_call(S, K, T, r, sigma, q) ==
    IF T <= EPSILON THEN [ret |-> Max(S - K, 0), path |-> "T"]
    ELSE IF sigma <= EPSILON
    THEN [ret |-> Max(Mul(S, Exp(-Mul(q, T))) - Mul(K, Exp(-Mul(r, T))), 0), path |-> "sigma"]
    ELSE IF K <= EPSILON THEN [ret |-> Mul(S, Exp(-Mul(q, T))), path |-> "K"]
    ELSE IF S <= EPSILON THEN [ret |-> 0, path |-> "S"]
    ELSE [ret |-> bs_formula(S, K, T, r, sigma, q), path |-> "formula"]

\* arguments the closed-form functions are called with
BsSpots == {-Num(1), 0, Num(10)}

BsStrikes == {-Num(1), 0, Num(8), Num(10)}

BsTimes == {0, Num(1), Num(2)}

BsVols == {0, Tenths(2), Tenths(3)}

BsRates == {0, Tenths(1)}

BsYields == {0, Hundredths(5)}

LdVols == {0, Hundredths(1), Tenths(3), Num(1), Num(30)}

LdLockups == {0, Num(1), Num(2)}

LdPrices == {0, Num(1), Num(5), Num(10)}

NoCall == [none |-> TRUE]

\* fv = FinancialMath.bs_call(S, K, T, r, vol, q)
BsCall ==
    /\ \E S \in BsSpots, K \in BsStrikes, T \in BsTimes,
          r \in BsRates, sigma \in BsVols, q \in BsYields :
          LET res == bs_call(S, K, T, r, sigma, q)
          IN  /\ bs_args' = [S |-> S, K |-> K, T |-> T, r |-> r, sigma |-> sigma, q |-> q]
              /\ bs_ret' = res.ret
              /\ bs_path' = res.path
    /\ UNCHANGED <<sel_vars, ld_vars, lat_vars, pass_vars, st_vars, rep_vars>>

\* disc = _calculate_lockup_discount_numba(vol, lockup_years, price, q)
LockupCall ==
    /\ \E volatility \in LdVols, lockup_time \in LdLockups,
          stock_price \in LdPrices, q \in BsYields :
          LET res == lockup_discount(volatility, lockup_time, stock_price, q)
          IN  /\ ld_args' = [volatility |-> volatility, lockup_time |-> lockup_time,
                             stock_price |-> stock_price, q |-> q]
              /\ ld_ret' = res.ret
              /\ ld_path' = res.path
    /\ UNCHANGED <<sel_vars, bs_vars, lat_vars, pass_vars, st_vars, rep_vars>>

-----------------------------------------------------------------------------
(* engines/financial.py: binomial_custom_optimized                          *)

StepsPerYear == 252

MaxSteps == 2500

MinSteps == 50

\* tipo_exercicio
American == 0

European == 1

\* b ** e for b > 0
Pow(b, e) == IF e = 0 THEN Scale ELSE Exp(Mul(e, Ln(b)))

total_steps(a) ==
    LET n == (a.T_years * StepsPerYear) \div Scale
    IN  IF n > MaxSteps THEN MaxSteps ELSE IF n < MinSteps THEN MinSteps ELSE n

dt(a) == a.T_years \div total_steps(a)

\* int(vesting_years / dt), dt # 0
Nv(a) == a.vesting_years \div dt(a)

\* vol * sqrt(dt), the logarithm of u
log_u(a) == Mul(a.vol, Sqrt(dt(a)))

u(a) == Exp(log_u(a))

d(a) == Div(Scale, u(a))

\* the risk-neutral probability, u # d
p(a) == Div(Exp(Mul(a.r - a.q, dt(a))) - d(a), u(a) - d(a))

\* a retention probability of a whole year at every step
prob_ficar_per_year(a) == Exp(-a.turnover_w)

prob_ficar(a) == Exp(-Mul(a.turnover_w, dt(a)))

prob_sair(a) == Scale - prob_ficar(a)

\* the float divisions of lines 101-109 by zero: dt = 0 or u = d
binomial_raises(a) == dt(a) = 0 \/ u(a) = d(a)

\* K * (1 + inflacao_anual) ** t
K_at(a, t) == Mul(a.K, Pow(Scale + a.inflacao_anual, t))

\* the price less its lockup discount when lockup_years > 0
after_lockup(a, price) ==
    IF a.lockup_years > 0
    THEN price - lockup_discount(a.vol, a.lockup_years, price, a.q).ret
    ELSE price

\* the array f[1..n]
Table(f, n) == SubSeq(f, 1, n)

\* the locals set before the loops (lines 97-115 and 126), with the node
\* prices S * u**e for every exponent e = i - 2j, their values net of the
\* lockup discount and the strike K_curr of every step i, which the loops
\* recompute at each use, tabulated
grid(a) ==
    LET N == total_steps(a)
        x == log_u(a)
        h == dt(a)
    IN  [N |-> N,
         Nv |-> Nv(a),
         p |-> p(a),
         discount |-> Exp(-Mul(a.r, h)),
         prob_ficar |-> prob_ficar(a),
         prob_sair |-> prob_sair(a),
         K_final |-> K_at(a, a.T_years),
         spots |-> Table([e \in 1..(2 * N + 1) |-> Mul(a.S, Exp((e - N - 1) * x))], 2 * N + 1),
         exerc |-> Table([e \in 1..(2 * N + 1) |->
                             after_lockup(a, Mul(a.S, Exp((e - N - 1) * x)))], 2 * N + 1),
         strikes |-> Table([i \in 1..N |-> K_at(a, (i - 1) * h)], N)]

\* S * u**(i - j) * d**j, with d = 1 / u
S_node(g, i, j) == g.spots[i - 2 * j + g.N + 1]

\* S_exerc (vals_base at maturity): the node price net of the lockup discount
S_exerc(g, i, j) == g.exerc[i - 2 * j + g.N + 1]

\* the strike of step i < N
K_curr(g, i) == g.strikes[i + 1]

\* option_values at maturity: one node for each j in 0..total_steps
terminal_layer(a, g) ==
    Table([k \in 1..(g.N + 1) |->
              LET ST == S_node(g, g.N, k - 1)
                  payoff == Max(S_exerc(g, g.N, k - 1) - g.K_final, 0)
              IN  [val |-> IF ST >= a.hurdle_H THEN payoff ELSE 0, rule |-> "terminal"]],
          g.N + 1)

\* a forced-exercise test that leaves the multiple M out
force_exercise_mask_at_the_money(a, Sn, Kc) ==
    Sn >= Kc /\ a.tipo_exercicio = American

\* force_exercise_mask at one node
force_exercise_mask(a, Sn, Kc) ==
    Sn >= Mul(a.multiple_M, Kc) /\ a.tipo_exercicio = American

\* a rational exercise that keeps the lower of the two values
final_node_val_takes_minimum(a, force, value_node, intrinsic_value) ==
    IF a.tipo_exercicio = American
    THEN IF force THEN [val |-> intrinsic_value, rule |-> "forced"]
         ELSE [val |-> Min(value_node, intrinsic_value), rule |-> "rational"]
    ELSE [val |-> value_node, rule |-> "european"]

\* final_node_val at one node, with the branch that produced it
final_node_val(a, force, value_node, intrinsic_value) ==
    IF a.tipo_exercicio = American
    THEN IF force THEN [val |-> intrinsic_value, rule |-> "forced"]
         ELSE [val |-> Max(value_node, intrinsic_value), rule |-> "rational"]
    ELSE [val |-> value_node, rule |-> "european"]

\* a backward loop in which the forced exercise is applied before the hurdle is
\* looked at
backward_layer_forced_below_hurdle(a, g, i, option_values) ==
    Table([k \in 1..(i + 1) |->
              LET hold == Mul(g.discount, Mul(g.p, option_values[k].val)
                                          + Mul(Scale - g.p, option_values[k + 1].val))
                  Sn == S_node(g, i, k - 1)
                  Kc == K_curr(g, i)
                  intrinsic_value == Max(S_exerc(g, i, k - 1) - Kc, 0)
                  value_node == Mul(g.prob_sair, intrinsic_value) + Mul(g.prob_ficar, hold)
              IN  IF i < g.Nv THEN [val |-> Mul(g.prob_ficar, hold), rule |-> "pre_vesting"]
                  ELSE IF Sn >= a.hurdle_H \/ force_exercise_mask(a, Sn, Kc)
                  THEN final_node_val(a, force_exercise_mask(a, Sn, Kc),
                                      value_node, intrinsic_value)
                  ELSE [val |-> Mul(g.prob_ficar, hold), rule |-> "below_hurdle"]],
          i + 1)

\* one pass of the backward loop: the layer of step i from the layer of step i + 1
backward_layer(a, g, i, option_values) ==
    Table([k \in 1..(i + 1) |->
              LET hold == Mul(g.discount, Mul(g.p, option_values[k].val)
                                          + Mul(Scale - g.p, option_values[k + 1].val))
                  Sn == S_node(g, i, k - 1)
                  Kc == K_curr(g, i)
                  intrinsic_value == Max(S_exerc(g, i, k - 1) - Kc, 0)
                  value_node == Mul(g.prob_sair, intrinsic_value) + Mul(g.prob_ficar, hold)
              IN  IF i < g.Nv THEN [val |-> Mul(g.prob_ficar, hold), rule |-> "pre_vesting"]
                  ELSE IF Sn >= a.hurdle_H
                  THEN final_node_val(a, force_exercise_mask(a, Sn, Kc),
                                      value_node, intrinsic_value)
                  ELSE [val |-> Mul(g.prob_ficar, hold), rule |-> "below_hurdle"]],
          i + 1)

RECURSIVE induction(_, _, _, _)
\* the backward loop from the layer of step i down to the root layer; the
\* layer of each step is computed once and handed on as a value
induction(a, g, i, option_values) ==
    IF i = 0 THEN option_values
    ELSE CHOOSE root \in { induction(a, g, i - 1, layer) :
                              layer \in {backward_layer(a, g, i - 1, option_values)} } : TRUE

\* binomial_custom_optimized: option_values[0] after the loop
binomial_root(a) ==
    CHOOSE fv \in UNION { { induction(a, g, g.N, layer)[1].val :
                              layer \in {terminal_layer(a, g)} } : g \in {grid(a)} } : TRUE

\* _execute_calc: the multiple handed to the engine
mul_m(raw_m) == IF raw_m < Num(1) THEN Num(1) ELSE raw_m

LatticeBase ==
    [S |-> Num(10), K |-> Num(10), r |-> Hundredths(5), vol |-> Tenths(3), q |-> 0,
     vesting_years |-> 0, turnover_w |-> Tenths(1), multiple_M |-> Num(2), hurdle_H |-> 0,
     T_years |-> Tenths(2), inflacao_anual |-> 0, lockup_years |-> 0,
     tipo_exercicio |-> American]

\* arguments binomial_custom_optimized is applied to
LatticeArgs ==
    { [LatticeBase EXCEPT !.K = K, !.vesting_years = v, !.multiple_M = M,
                          !.hurdle_H = H, !.tipo_exercicio = t] :
        K \in {Num(5), Num(10)}, v \in {0}, M \in {Tenths(5), Num(2), Num(3)},
        H \in {0, Num(11)}, t \in {American, European} }
    \cup
    { [b EXCEPT !.tipo_exercicio = t] :
        b \in { [LatticeBase EXCEPT !.vol = 0],
                [LatticeBase EXCEPT !.T_years = 0],
                [LatticeBase EXCEPT !.lockup_years = Num(1)],
                [LatticeBase EXCEPT !.vesting_years = Tenths(1), !.K = Num(5)],
                [LatticeBase EXCEPT !.r = Hundredths(85), !.vol = Hundredths(5), !.multiple_M = Num(3)],
                [LatticeBase EXCEPT !.q = Tenths(2), !.K = Num(5), !.multiple_M = Num(3)],
                [LatticeBase EXCEPT !.inflacao_anual = Hundredths(5)],
                [LatticeBase EXCEPT !.turnover_w = 0, !.K = Num(5)],
                [LatticeBase EXCEPT !.vesting_years = Hundredths(25), !.K = Num(5)],
                [LatticeBase EXCEPT !.vesting_years = 1030, !.K = Num(5)],
                [LatticeBase EXCEPT !.T_years = Hundredths(25)],
                [LatticeBase EXCEPT !.turnover_w = 0],
                [LatticeBase EXCEPT !.turnover_w = 0, !.vol = 0] },
        t \in {American, European} }

\* tranche inputs _execute_calc hands to the engine: M clamped, hurdle 0.0,
\* tipo_exercicio left at its default
ExecCalcItems ==
    { [K |-> K, Vesting |-> v, M |-> M] :
        K \in {Num(5), Num(10)}, v \in {0, Tenths(1)}, M \in {Tenths(5), Num(2)} }

\* the entry of the call: the grid, or the division by zero
Enter(a, raw_m, caller) ==
    /\ lat_pc = "idle"
    /\ lat_args' = a
    /\ lat_raw_m' = raw_m
    /\ lat_caller' = caller
    /\ lat_forced' = FALSE
    /\ lat_ret' = 0
    /\ IF binomial_raises(a)
       THEN /\ lat_pc' = "raised"
            /\ lat_grid' = NoCall
            /\ lat_i' = 0
            /\ lat_nodes' = << >>
       ELSE /\ lat_pc' = "loop"
            /\ lat_grid' = grid(a)
            /\ lat_i' = total_steps(a)
            /\ lat_nodes' = terminal_layer(a, grid(a))
    /\ UNCHANGED <<sel_vars, bs_vars, ld_vars, pass_vars, st_vars, rep_vars>>

\* binomial_custom_optimized(...) applied to arguments of its domain
BinomialCall == \E a \in LatticeArgs : Enter(a, a.multiple_M, "direct")

\* _execute_calc: fv = FinancialMath.binomial_custom_optimized(S, K, r, vol, q,
\*                      vesting, turnover, mul_m, 0.0, T, strike_corr, lockup)
ExecCalcBinomial ==
    \E item \in ExecCalcItems :
        Enter([LatticeBase EXCEPT !.K = item.K, !.vesting_years = item.Vesting,
                                  !.multiple_M = mul_m(item.M)],
              item.M, "_execute_calc")

\* for i in range(total_steps - 1, -1, -1): one iteration
BackwardStep ==
    /\ lat_pc = "loop"
    /\ lat_i > 0
    /\ LET layer == backward_layer(lat_args, lat_grid, lat_i - 1, lat_nodes)
       IN  /\ lat_nodes' = layer
           /\ lat_forced' = (lat_forced \/ \E k \in 1..Len(layer) : layer[k].rule = "forced")
    /\ lat_i' = lat_i - 1
    /\ UNCHANGED <<lat_args, lat_raw_m, lat_caller, lat_grid, lat_pc, lat_ret, sel_vars, bs_vars,
                   ld_vars, pass_vars, st_vars, rep_vars>>

\* return option_values[0]
BinomialReturn ==
    /\ lat_pc = "loop"
    /\ lat_i = 0
    /\ lat_ret' = lat_nodes[1].val
    /\ lat_pc' = "returned"
    /\ UNCHANGED <<lat_args, lat_raw_m, lat_caller, lat_grid, lat_i, lat_nodes, lat_forced,
                   sel_vars, bs_vars, ld_vars, pass_vars, st_vars, rep_vars>>

-----------------------------------------------------------------------------
(* ui/app_interface.py: _execute_calc; ui/components/valuation_view.py:     *)
(* _execute_calc_restore                                                    *)

MaxItems == 2

\* one inputs item; Vol is the percentage _execute_calc divides by 100 and
\* the decimal _execute_calc_restore passes on
Item(K, Vol, Prop, Lockup) ==
    [TrancheID |-> 0, S |-> Num(10), K |-> K, q |-> 0, T |-> Tenths(2), Vesting |-> 0,
     Prop |-> Prop, Vol |-> Vol, r |-> Hundredths(5), Lockup |-> Lockup,
     Turnover |-> Tenths(1), M |-> Tenths(5), StrikeCorr |-> 0]

\* the items of the Binomial, Black-Scholes and RSU forms of IFRS2App
CalcItems(model_type) ==
    CASE model_type = "BINOMIAL" ->
            { Item(Num(12), v, w, 0) : v \in {0, Num(30)}, w \in {Tenths(5), Num(1)} }
      [] model_type = "BLACK_SCHOLES_GRADED" ->
            { Item(K, v, w, 0) : K \in {Num(8), Num(12)}, v \in {0, Num(30)},
                                 w \in {-Tenths(5), Tenths(5)} }
      [] model_type = "RSU" ->
            { Item(0, v, w, L) : v \in {0, Num(30)}, w \in {-Tenths(5), Tenths(5)},
                                 L \in {0, Num(1)} }

\* the items of _render_detailed_tranches_view
RestoreItems(model) ==
    CASE model = "BLACK_SCHOLES_GRADED" ->
            { Item(K, v, w, 0) : K \in {Num(8), Num(12)}, v \in {0, Tenths(3)},
                                 w \in {-Tenths(5), Tenths(5)} }
      [] model = "RSU" ->
            { Item(Num(8), v, w, L) : v \in {0, Tenths(3)}, w \in {-Tenths(5), Tenths(5)},
                                      L \in {0, Num(1)} }
      [] OTHER ->
            { Item(Num(12), Tenths(3), w, 0) : w \in {Tenths(5), Num(1)} }

\* the inputs list built from n items: TrancheID is i + 1
InputsOf(items, n) ==
    { [i \in 1..n |-> [f[i] EXCEPT !.TrancheID = i]] : f \in [1..n -> items] }

\* a row and the total of a priced tranche that leave the weight out of the total
add_row_totals_unit(acc, item, fv) ==
    [acc EXCEPT !.res_data = Append(@, [Tranche |-> item.TrancheID, FV_Unit |-> fv,
                                        FV_Ponderado |-> Mul(fv, item.Prop)]),
                !.total_fv = @ + fv]

\* w_fv = fv * Prop; total_fv += w_fv; append of the row
add_row(acc, item, fv) ==
    [acc EXCEPT !.res_data = Append(@, [Tranche |-> item.TrancheID, FV_Unit |-> fv,
                                        FV_Ponderado |-> Mul(fv, item.Prop)]),
                !.total_fv = @ + Mul(fv, item.Prop)]

Raised == [ok |-> FALSE, fv |-> 0]

Priced(fv) == [ok |-> TRUE, fv |-> fv]

\* the arguments _execute_calc hands to binomial_custom_optimized
calc_binomial_args(item) ==
    [S |-> item.S, K |-> item.K, r |-> item.r, vol |-> item.Vol \div 100, q |-> item.q,
     vesting_years |-> item.Vesting, turnover_w |-> item.Turnover,
     multiple_M |-> mul_m(item.M), hurdle_H |-> 0, T_years |-> item.T,
     inflacao_anual |-> item.StrikeCorr, lockup_years |-> item.Lockup,
     tipo_exercicio |-> American]

\* _execute_calc: the engine call of one tranche; FinancialMath has no
\* calculate_lockup_discount, so the RSU branch raises when Lockup > 0
calc_fv(item, model_type) ==
    CASE model_type = "BINOMIAL" ->
            IF binomial_raises(calc_binomial_args(item)) THEN Raised
            ELSE Priced(binomial_root(calc_binomial_args(item)))
      [] model_type = "BLACK_SCHOLES_GRADED" ->
            Priced(bs_call(item.S, item.K, item.T, item.r, item.Vol \div 100, item.q).ret)
      [] model_type = "RSU" ->
            IF item.Lockup > 0 THEN Raised
            ELSE Priced(Mul(item.S, Exp(-Mul(item.q, item.T))))
      [] OTHER -> Priced(0)

\* _execute_calc_restore: the engine call of one tranche; the Binomial call
\* names parameters the engine does not have and raises
restore_fv(item, model) ==
    CASE model = "BLACK_SCHOLES_GRADED" ->
            Priced(bs_call(item.S, item.K, item.T, item.r, item.Vol, item.q).ret)
      [] model = "RSU" ->
            IF item.Lockup > 0 THEN Raised
            ELSE Priced(Mul(item.S, Exp(-Mul(item.q, item.Vesting))))
      [] model = "BINOMIAL" -> Raised
      [] OTHER -> Priced(0)

RECURSIVE execute_calc(_, _, _, _)
\* _execute_calc from item idx on: a tranche that raises is reported and skipped
execute_calc(inputs, model_type, idx, acc) ==
    IF idx > Len(inputs) THEN acc
    ELSE CHOOSE out \in
            { execute_calc(inputs, model_type, idx + 1,
                           IF fv.ok THEN add_row(acc, inputs[idx], fv.fv)
                           ELSE [acc EXCEPT !.errors = @ + 1]) :
                fv \in {calc_fv(inputs[idx], model_type)} } : TRUE

RECURSIVE execute_calc_restore(_, _, _, _)
\* _execute_calc_restore from item idx on: an exception ends the pass
execute_calc_restore(inputs, model, idx, acc) ==
    IF idx > Len(inputs) THEN acc
    ELSE CHOOSE out \in
            { IF fv.ok
              THEN execute_calc_restore(inputs, model, idx + 1, add_row(acc, inputs[idx], fv.fv))
              ELSE [acc EXCEPT !.errors = @ + 1] :
                fv \in {restore_fv(inputs[idx], model)} } : TRUE

NoRows == [res_data |-> << >>, total_fv |-> 0, errors |-> 0]

\* IFRS2App._execute_calc(inputs, model_type): the session state is not touched
CalcPass(model_type, inputs) ==
    /\ pass_pc = "idle"
    /\ \E out \in {execute_calc(inputs, model_type, 1, NoRows)} :
        /\ pass_handler' = "_execute_calc"
        /\ pass_inputs' = inputs
        /\ pass_model' = model_type
        /\ pass_pc' = "done"
        /\ res_data' = out.res_data
        /\ total_fv' = out.total_fv
        /\ pass_errors' = out.errors
    /\ UNCHANGED <<calc_results, st_vars, sel_vars, bs_vars, ld_vars, lat_vars, rep_vars>>

\* _execute_calc applied to inputs of its domain
ExecuteCalc ==
    \E model_type \in {"BINOMIAL", "BLACK_SCHOLES_GRADED", "RSU"}, n \in 0..MaxItems :
        \E inputs \in InputsOf(CalcItems(model_type), n) : CalcPass(model_type, inputs)

\* a pass that writes the priced proportions back to the tranche list
RestorePass_rewrites_tranches(model, inputs) ==
    /\ pass_pc = "idle"
    /\ \E out \in {execute_calc_restore(inputs, model, 1, NoRows)} :
        /\ pass_handler' = "_execute_calc_restore"
        /\ pass_inputs' = inputs
        /\ pass_model' = model
        /\ pass_errors' = 0
        /\ IF out.errors = 0
           THEN /\ pass_pc' = "done"
                /\ res_data' = out.res_data
                /\ total_fv' = out.total_fv
                /\ calc_results' = out.res_data
                /\ st_stale' = FALSE
           ELSE /\ pass_pc' = "raised"
                /\ res_data' = << >>
                /\ total_fv' = 0
                /\ UNCHANGED <<calc_results, st_stale>>
    /\ st_tranches' = [i \in DOMAIN st_tranches |->
                          [st_tranches[i] EXCEPT !.proportion = 0]]
    /\ UNCHANGED <<st_analysis, report_tab, sel_vars, bs_vars, ld_vars, lat_vars, rep_vars>>

\* _execute_calc_restore(inputs, model): the results are stored when the loop
\* got through every tranche; analysis and tranches are not touched
RestorePass(model, inputs) ==
    /\ pass_pc = "idle"
    /\ \E out \in {execute_calc_restore(inputs, model, 1, NoRows)} :
        /\ pass_handler' = "_execute_calc_restore"
        /\ pass_inputs' = inputs
        /\ pass_model' = model
        /\ pass_errors' = 0
        /\ IF out.errors = 0
           THEN /\ pass_pc' = "done"
                /\ res_data' = out.res_data
                /\ total_fv' = out.total_fv
                /\ calc_results' = out.res_data
                /\ st_stale' = FALSE
           ELSE /\ pass_pc' = "raised"
                /\ res_data' = << >>
                /\ total_fv' = 0
                /\ UNCHANGED <<calc_results, st_stale>>
    /\ UNCHANGED <<st_analysis, st_tranches, report_tab, sel_vars, bs_vars, ld_vars, lat_vars,
                   rep_vars>>

\* _execute_calc_restore applied to inputs of its domain
ExecuteCalcRestore ==
    \E model \in {"BINOMIAL", "BLACK_SCHOLES_GRADED", "RSU", "UNDEFINED"}, n \in 1..MaxItems :
        \E inputs \in InputsOf(RestoreItems(model), n) : RestorePass(model, inputs)

-----------------------------------------------------------------------------
(* Plans handed to select_model.                                           *)

TrancheValues ==
    [vesting_date : {Num(1), Num(3)},
     proportion : {0, Tenths(5)},
     expiration_date : {None, Some(Num(5))}]

TrancheLists == UNION {[1..n -> TrancheValues] : n \in 0..MaxTranches}

Rationales == {<< >>, <<"ai:text">>, <<"ai:monte carlo">>}

Plans ==
    [has_market_condition : BOOLEAN,
     has_strike_correction : BOOLEAN,
     strike_is_zero : BOOLEAN,
     lockup_years : {0, Num(1)},
     option_life_years : {Num(3), Num(5)},
     tranches : TrancheLists,
     settlement_type : {"EQUITY_SETTLED", "CASH_SETTLED", "HYBRID"},
     model_recommended : {"BLACK_SCHOLES_GRADED", "BINOMIAL", "MONTE_CARLO", "UNDEFINED"},
     methodology_rationale : Rationales]

\* PlanAnalysisResult with the defaults of its fields
DefaultPlan ==
    [has_market_condition |-> FALSE,
     has_strike_correction |-> FALSE,
     strike_is_zero |-> FALSE,
     lockup_years |-> 0,
     option_life_years |-> Num(5),
     tranches |-> << >>,
     settlement_type |-> "EQUITY_SETTLED",
     model_recommended |-> "BLACK_SCHOLES_GRADED",
     methodology_rationale |-> << >>]

-----------------------------------------------------------------------------
(* services/ai_service.py: _map_json_to_domain; ui/state.py: AppState;      *)
(* ui/components: sidebar, valuation_view, report_view                     *)

MaxSchedule == 1

MaxEditable == 3

Tranche(vesting_date, proportion, expiration_date) ==
    [vesting_date |-> vesting_date, proportion |-> proportion,
     expiration_date |-> expiration_date]

RECURSIVE map_vesting_schedule(_, _)
\* _map_json_to_domain: the loop over params['vesting_schedule']; a Tranche
\* whose percentage fails the validation of the model is skipped
map_vesting_schedule(schedule, global_life) ==
    IF schedule = << >> THEN << >>
    ELSE LET t == Head(schedule)
             p_y == t.period_years
             p_p == t.percentage
             given == IF IsNone(t.expiration_years) THEN global_life
                      ELSE t.expiration_years[1]
             p_exp == IF given < p_y THEN global_life ELSE given
             rest == map_vesting_schedule(Tail(schedule), global_life)
         IN  IF p_y > 0 /\ p_p >= 0 /\ p_p <= Scale
             THEN <<Tranche(p_y, p_p, Some(p_exp))>> \o rest
             ELSE rest

\* _map_json_to_domain(data)
map_json_to_domain(data) ==
    [DefaultPlan EXCEPT
        !.methodology_rationale = <<"ai:text">>,
        !.tranches = map_vesting_schedule(data.vesting_schedule, data.option_life),
        !.option_life_years = data.option_life,
        !.lockup_years = data.lockup_years]

ScheduleEntries ==
    {[period_years |-> Num(1), percentage |-> Tenths(5), expiration_years |-> None],
     [period_years |-> Num(1), percentage |-> Tenths(5), expiration_years |-> Some(Num(10))],
     [period_years |-> Num(10), percentage |-> Tenths(5), expiration_years |-> Some(Num(1))],
     [period_years |-> 0, percentage |-> Tenths(5), expiration_years |-> None],
     [period_years |-> Num(1), percentage |-> Tenths(15), expiration_years |-> None]}

\* the JSON the extraction hands to _map_json_to_domain
ExtractedData ==
    [vesting_schedule : UNION {[1..n -> ScheduleEntries] : n \in 0..MaxSchedule},
     option_life : {Num(5)},
     lockup_years : {0, Num(1)}]

\* AppState.set_analysis: the editable tranches
set_analysis(result) ==
    IF result.tranches # << >> THEN result.tranches
    ELSE <<Tranche(Num(1), Num(1), Some(Num(5)))>>

\* AppState.enable_manual_mode: manual_analysis
manual_analysis ==
    [DefaultPlan EXCEPT !.methodology_rationale = <<"manual">>]

\* an add_tranche_action that puts the new tranche first
add_tranche_action_in_front(current) ==
    LET last_vesting == IF current # << >> THEN current[Len(current)].vesting_date ELSE 0
    IN  <<Tranche(last_vesting + Num(1), 0, Some(Num(10)))>> \o current

\* AppState.add_tranche_action
add_tranche_action(current) ==
    LET last_vesting == IF current # << >> THEN current[Len(current)].vesting_date ELSE 0
    IN  Append(current, Tranche(last_vesting + Num(1), 0, Some(Num(10))))

\* AppState.remove_last_tranche_action
remove_last_tranche_action(current) ==
    IF current # << >> THEN SubSeq(current, 1, Len(current) - 1) ELSE current

\* _render_detailed_tranches_view: inputs_calc with the values the widgets
\* take from the tranches and the analysis
inputs_calc(a, tranches) ==
    [i \in DOMAIN tranches |->
        [Item(Num(8), Tenths(3), tranches[i].proportion, a.lockup_years) EXCEPT
            !.TrancheID = i,
            !.T = IF Truthy(tranches[i].expiration_date)
                  THEN tranches[i].expiration_date[1] ELSE a.option_life_years,
            !.Vesting = tranches[i].vesting_date]]

\* IFRS2App._render_graded: inputs
graded_inputs(a, tranches) ==
    [i \in DOMAIN tranches |->
        [Item(Num(8), Num(30), tranches[i].proportion, 0) EXCEPT
            !.TrancheID = i,
            !.T = IF Truthy(tranches[i].expiration_date)
                  THEN tranches[i].expiration_date[1] ELSE a.option_life_years]]

\* sidebar._handle_analysis: extraction, select_model, set_analysis; an
\* exception of select_model is reported and nothing is stored
HandleAnalysis ==
    /\ \E data \in ExtractedData :
        LET res == select_model(map_json_to_domain(data))
        IN  IF res.status = "returned"
            THEN /\ st_analysis' = Some(res.obj)
                 /\ st_tranches' = set_analysis(res.obj)
                 /\ st_stale' = TRUE
            ELSE UNCHANGED <<st_analysis, st_tranches, st_stale>>
    /\ report_tab' = "none"
    /\ UNCHANGED <<sel_vars, bs_vars, ld_vars, lat_vars, pass_vars, rep_vars>>

\* sidebar: "Modo Manual (Reset)"
EnableManualMode ==
    /\ st_analysis' = Some(manual_analysis)
    /\ st_tranches' = set_analysis(manual_analysis)
    /\ st_stale' = TRUE
    /\ report_tab' = "none"
    /\ UNCHANGED <<sel_vars, bs_vars, ld_vars, lat_vars, pass_vars, rep_vars>>

\* valuation_view: "Adicionar Tranche"
AddTranche ==
    /\ st_analysis # None
    /\ Len(st_tranches) < MaxEditable
    /\ st_tranches' = add_tranche_action(st_tranches)
    /\ st_stale' = TRUE
    /\ report_tab' = "none"
    /\ UNCHANGED <<st_analysis, sel_vars, bs_vars, ld_vars, lat_vars, pass_vars, rep_vars>>

\* valuation_view: "Remover Tranche"
RemoveLastTranche ==
    /\ st_analysis # None
    /\ st_tranches' = remove_last_tranche_action(st_tranches)
    /\ st_stale' = (st_stale \/ st_tranches # << >>)
    /\ report_tab' = "none"
    /\ UNCHANGED <<st_analysis, sel_vars, bs_vars, ld_vars, lat_vars, pass_vars, rep_vars>>

\* valuation_view: "Calcular Fair Value (Todos)"
CalcButton ==
    /\ st_analysis # None
    /\ st_tranches # << >>
    /\ \E model \in {"BLACK_SCHOLES_GRADED", "BINOMIAL", "RSU"} :
        RestorePass(model, inputs_calc(st_analysis[1], st_tranches))

\* IFRS2App: "Calcular (Black-Scholes)"
GradedCalcButton ==
    /\ st_analysis # None
    /\ CalcPass("BLACK_SCHOLES_GRADED", graded_inputs(st_analysis[1], st_tranches))

\* report_view.render_report_tab: the warning, or the report form
RenderReportTab ==
    /\ report_tab' = IF calc_results = << >> \/ st_analysis = None THEN "warning" ELSE "form"
    /\ UNCHANGED <<st_analysis, st_tranches, st_stale, sel_vars, bs_vars, ld_vars, lat_vars,
                   pass_vars, rep_vars>>

-----------------------------------------------------------------------------
(* services/report_service.py: ReportService                                *)

MaxRows == 2

DigitChars == <<"0", "1", "2", "3", "4", "5", "6", "7", "8", "9">>

Digit(n) == DigitChars[n + 1]

RECURSIVE Digits(_)
\* the decimal digits of n >= 0
Digits(n) == IF n < 10 THEN <<Digit(n)>> ELSE Append(Digits(n \div 10), Digit(n % 10))

RECURSIVE Grouped(_)
\* the "," option of the format: groups of three digits
Grouped(n) ==
    IF n < 1000 THEN Digits(n)
    ELSE Grouped(n \div 1000) \o <<",">>
         \o <<Digit((n % 1000) \div 100), Digit((n \div 10) % 10), Digit(n % 10)>>

\* .2f: |x| in hundredths, a tie to the even neighbour
RoundCents(x) ==
    LET quot == x \div (Scale \div 100)
        rem == x % (Scale \div 100)
        half == Scale \div 200
    IN  IF rem > half \/ (rem = half /\ quot % 2 = 1) THEN quot + 1 ELSE quot

\* f"{val:,.2f}"
format_comma_2f(val) ==
    LET c == RoundCents(Abs(val))
    IN  (IF val < 0 THEN <<"-">> ELSE << >>)
        \o Grouped(c \div 100) \o <<".">> \o <<Digit((c \div 10) % 10), Digit(c % 10)>>

\* str.replace for one-character arguments
replace(text, old, new) == [i \in DOMAIN text |-> IF text[i] = old THEN new ELSE text[i]]

\* a _format_currency that leaves the separators of the format as they are
format_currency_unswapped(value) ==
    <<"R", "$", " ">> \o format_comma_2f(value)

\* ReportService._format_currency, of a number
format_currency(value) ==
    <<"R", "$", " ">>
    \o replace(replace(replace(format_comma_2f(value), ",", "X"), ".", ","), "X", ".")

\* ReportService.generate_report_context: programa.metodologia, regras and
\* the fair-value table of the context
generate_report_context(analysis_result, tranches, results, manual_inputs) ==
    LET metodologia == IF IsNone(manual_inputs.metodologia) THEN "BLACK_SCHOLES"
                       ELSE manual_inputs.metodologia[1]
        tipo_detalhado == manual_inputs.tipo_detalhado
        is_rsu == \/ Contains(tipo_detalhado, "Restricted")
                  \/ Contains(tipo_detalhado, "RSU")
                  \/ metodologia = "COTACAO"
        is_performance == \/ Contains(tipo_detalhado, "Performance")
                          \/ analysis_result.has_market_condition
        tem_nao_mercado == /\ Contains(tipo_detalhado, "Performance")
                           /\ ~analysis_result.has_market_condition
    IN  [programa |-> [tipo_detalhado |-> tipo_detalhado, metodologia |-> metodologia],
         regras |-> [texto_vesting |-> Len(tranches),
                     tem_performance |-> analysis_result.has_market_condition,
                     tem_performance_nao_mercado |-> tem_nao_mercado,
                     tem_lockup |-> analysis_result.lockup_years > 0,
                     prazo_lockup |-> analysis_result.lockup_years,
                     is_stock_option |-> ~is_rsu /\ ~is_performance,
                     is_rsu |-> is_rsu,
                     is_performance |-> is_performance],
         tabelas |-> [resultados_fair_value |->
                        [i \in DOMAIN results |->
                            [lote |-> IF IsNone(results[i].TrancheID) THEN i
                                      ELSE results[i].TrancheID[1],
                             modelo |-> metodologia,
                             fv_final |-> format_currency(results[i].FV_Unit)]]]]

\* the 'FV Unit' of a result row
FvValues == {0, 12345, Num(25), Num(1234) + 5678, Num(100000), -Hundredths(150)}

\* rows of calc_results: with the TrancheID of its item (_execute_calc_restore)
\* or without one (_execute_calc, the Monte Carlo run)
ResultRows ==
    {[TrancheID |-> None, FV_Unit |-> v] : v \in FvValues}
    \cup {[TrancheID |-> Some(3), FV_Unit |-> Num(55)]}

\* arguments generate_report_context is applied to
ReportArgs ==
    [analysis : {[DefaultPlan EXCEPT !.has_market_condition = h] : h \in BOOLEAN},
     tranches : {<<Tranche(Num(1), Num(1), Some(Num(5)))>>},
     calc_results : UNION {[1..n -> ResultRows] : n \in 0..MaxRows},
     manual_inputs : [metodologia : {None, Some("BLACK_SCHOLES"), Some("MONTE_CARLO"),
                                     Some("COTACAO")},
                      tipo_detalhado : {<< >>, <<"Performance">>}]]

\* ReportService.generate_report_context(...)
GenerateReportContext ==
    /\ rep_args = NoCall
    /\ \E a \in ReportArgs :
        /\ rep_args' = a
        /\ rep_context' = generate_report_context(a.analysis, a.tranches, a.calc_results,
                                                  a.manual_inputs)
    /\ UNCHANGED <<sel_vars, bs_vars, ld_vars, lat_vars, pass_vars, st_vars>>

\* the context handed to the template: rendered once built
RenderTemplate ==
    /\ rep_args # NoCall
    /\ rep_args' = NoCall
    /\ rep_context' = NoCall
    /\ UNCHANGED <<sel_vars, bs_vars, ld_vars, lat_vars, pass_vars, st_vars>>

SelIdle ==
    /\ analysis = DefaultPlan
    /\ sel_input = DefaultPlan
    /\ sel_status = "new"
    /\ sel_calls = 0

BsIdle == bs_args = NoCall /\ bs_ret = 0 /\ bs_path = "none"

LdIdle == ld_args = NoCall /\ ld_ret = 0 /\ ld_path = "none"

\* AppState.initialize: last_calc_results = []
PassIdle ==
    /\ pass_handler = "none"
    /\ pass_inputs = << >>
    /\ pass_model = "UNDEFINED"
    /\ pass_pc = "idle"
    /\ res_data = << >>
    /\ total_fv = 0
    /\ pass_errors = 0
    /\ calc_results = << >>

\* AppState.initialize: analysis_result = None, tranches = []
StIdle ==
    /\ st_analysis = None
    /\ st_tranches = << >>
    /\ st_stale = FALSE
    /\ report_tab = "none"

RepIdle == rep_args = NoCall /\ rep_context = NoCall

LatIdle ==
    /\ lat_args = NoCall
    /\ lat_raw_m = 0
    /\ lat_caller = "none"
    /\ lat_grid = NoCall
    /\ lat_pc = "idle"
    /\ lat_i = 0
    /\ lat_nodes = << >>
    /\ lat_forced = FALSE
    /\ lat_ret = 0

SelInit ==
    /\ analysis \in Plans
    /\ sel_input = analysis
    /\ sel_status = "new"
    /\ sel_calls = 0
    /\ BsIdle
    /\ LdIdle
    /\ LatIdle
    /\ PassIdle
    /\ StIdle
    /\ RepIdle

\* analysis = ModelSelectorService.select_model(analysis)
SelectModel ==
    /\ sel_status # "raised"
    /\ sel_calls < MaxCalls
    /\ LET res == select_model(analysis)
       IN  /\ analysis' = res.obj
           /\ sel_status' = res.status
    /\ sel_calls' = sel_calls + 1
    /\ UNCHANGED <<sel_input, bs_vars, ld_vars, lat_vars, pass_vars, st_vars, rep_vars>>

SelNext == SelectModel

SpecSelect == SelInit /\ [][SelNext]_vars

BsInit == SelIdle /\ BsIdle /\ LdIdle /\ LatIdle /\ PassIdle /\ StIdle /\ RepIdle

BsNext == BsCall

SpecBs == BsInit /\ [][BsNext]_vars

LdInit == SelIdle /\ BsIdle /\ LdIdle /\ LatIdle /\ PassIdle /\ StIdle /\ RepIdle

LdNext == LockupCall

SpecLockup == LdInit /\ [][LdNext]_vars

LatInit == SelIdle /\ BsIdle /\ LdIdle /\ LatIdle /\ PassIdle /\ StIdle /\ RepIdle

LatNext == BinomialCall \/ ExecCalcBinomial \/ BackwardStep \/ BinomialReturn

SpecLattice == LatInit /\ [][LatNext]_vars

\* a session in manual mode, with or without an added tranche
StManual ==
    /\ st_analysis = Some(manual_analysis)
    /\ st_tranches \in {set_analysis(manual_analysis),
                        add_tranche_action(set_analysis(manual_analysis))}
    /\ st_stale = TRUE
    /\ report_tab = "none"

PassInit == SelIdle /\ BsIdle /\ LdIdle /\ LatIdle /\ PassIdle /\ StManual /\ RepIdle

PassNext == ExecuteCalc \/ ExecuteCalcRestore

SpecPricing == PassInit /\ [][PassNext]_vars

StInit == SelIdle /\ BsIdle /\ LdIdle /\ LatIdle /\ PassIdle /\ StIdle /\ RepIdle

StNext ==
    \/ HandleAnalysis
    \/ EnableManualMode
    \/ AddTranche
    \/ RemoveLastTranche
    \/ CalcButton
    \/ GradedCalcButton
    \/ RenderReportTab

SpecState == StInit /\ [][StNext]_vars

EditNext ==
    \/ HandleAnalysis
    \/ EnableManualMode
    \/ AddTranche
    \/ RemoveLastTranche
    \/ RenderReportTab

SpecEdit == StInit /\ [][EditNext]_vars

RepInit == SelIdle /\ BsIdle /\ LdIdle /\ LatIdle /\ PassIdle /\ StIdle /\ RepIdle

RepNext == GenerateReportContext \/ RenderTemplate

SpecReport == RepInit /\ [][RepNext]_vars

-----------------------------------------------------------------------------
(* Claims about select_model.                                              *)

C3_ClaimedChoice(a) ==
    IF \/ a.has_strike_correction
       \/ a.option_life_years - get_avg_vesting(a) > Tenths(5)
       \/ a.lockup_years > 0
    THEN "BINOMIAL" ELSE "BLACK_SCHOLES_GRADED"

C3_Life(a) ==
    IF a.tranches # << >> /\ Truthy(a.tranches[1].expiration_date)
    THEN SumSeq([i \in DOMAIN a.tranches |->
                    Mul(a.tranches[i].expiration_date[1], a.tranches[i].proportion)])
    ELSE a.option_life_years

C4_NoData(a) ==
    /\ a.tranches = << >>
    /\ ~a.has_market_condition /\ ~a.has_strike_correction /\ ~a.strike_is_zero
    /\ a.lockup_years = 0
    /\ a.option_life_years = Num(5)
    /\ a.settlement_type = "EQUITY_SETTLED"
    /\ a.model_recommended = "BLACK_SCHOLES_GRADED"

\* C4 as claimed: select_model never raises, and a plan that carries no data
\* ends in the last branch, BlackScholesGraded.
C4_NeverRaisesDefaultsToLast ==
    /\ sel_status # "raised"
    /\ (sel_calls > 0 /\ C4_NoData(sel_input))
           => analysis.model_recommended = "BLACK_SCHOLES_GRADED"

\* C7: bs_call tests its boundary cases in the order time, volatility,
\* strike, spot: with no time left it returns max(S - K, 0); otherwise with
\* no volatility the discounted intrinsic value floored at zero; otherwise
\* with no strike S*exp(-qT); otherwise with no spot 0.
C7_BoundaryOrder ==
    bs_args # NoCall =>
        LET S == bs_args.S
            K == bs_args.K
            T == bs_args.T
            r == bs_args.r
            sigma == bs_args.sigma
            q == bs_args.q
            fwd == Mul(S, Exp(-Mul(q, T)))
            pvK == Mul(K, Exp(-Mul(r, T)))
        IN  /\ T <= EPSILON => bs_path = "T" /\ bs_ret = Max(S - K, 0)
            /\ T > EPSILON /\ sigma <= EPSILON =>
                   bs_path = "sigma" /\ bs_ret = Max(fwd - pvK, 0)
            /\ T > EPSILON /\ sigma > EPSILON /\ K <= EPSILON =>
                   bs_path = "K" /\ bs_ret = fwd
            /\ T > EPSILON /\ sigma > EPSILON /\ K > EPSILON /\ S <= EPSILON =>
                   bs_path = "S" /\ bs_ret = 0
            /\ bs_path = "formula" =>
                   T > EPSILON /\ sigma > EPSILON /\ K > EPSILON /\ S > EPSILON

\* a call where both the volatility and the strike are degenerate and the
\* volatility branch, whose value differs from the strike branch's, answered
C7_Witness ==
    /\ bs_args # NoCall
    /\ bs_args.T > EPSILON
    /\ bs_args.sigma <= EPSILON
    /\ bs_args.K <= EPSILON
    /\ bs_path = "sigma"
    /\ bs_ret # Mul(bs_args.S, Exp(-Mul(bs_args.q, bs_args.T)))

\* C8: for non-negative arguments the lockup discount is never negative and
\* never NaN, and it is 0 in each degenerate branch.
C8_LockupDiscountNonNegative ==
    ld_args # NoCall =>
        /\ ~IsNaN(ld_ret)
        /\ ld_ret >= 0
        /\ ld_path \in {"lockup", "inner", "log", "b"} => ld_ret = 0
        /\ ld_args.lockup_time <= EPSILON => ld_ret = 0

\* the same arguments with the European exercise style
AsEuropean(a) == [a EXCEPT !.tipo_exercicio = European]

LoopNodes ==
    IF lat_pc \in {"loop", "returned"} /\ lat_i < total_steps(lat_args)
    THEN 1..Len(lat_nodes) ELSE {}

NodeSpot(k) == Mul(lat_args.S, Exp((lat_i - 2 * (k - 1)) * log_u(lat_args)))

NodeStrike == K_at(lat_args, lat_i * dt(lat_args))

NodeIntrinsic(k) == Max(after_lockup(lat_args, NodeSpot(k)) - NodeStrike, 0)

\* C10 as claimed: a node is forced to exercise only when the multiple given
\* for the tranche is at least 1, the style is American and the node's spot
\* is at least multiple x strike; with a multiple below 1 or with the
\* European style no node is forced.
C10_ForcedOnlyWithMultipleAtLeastOne ==
    \A k \in LoopNodes :
        lat_nodes[k].rule = "forced" =>
            /\ lat_raw_m >= Num(1)
            /\ lat_args.tipo_exercicio = American
            /\ NodeSpot(k) >= Mul(lat_raw_m, NodeStrike)

\* C10 amended: a post-vesting node at or above the hurdle is forced to
\* exercise (value = intrinsic) exactly when the style is American and the
\* node's spot is at least M x strike for the multiple M the engine received;
\* _execute_calc hands it max(multiple, 1), so a multiple below 1 acts as 1;
\* with the European style no node is forced.
C10_ForcedExactlyOnEngineMultiple ==
    /\ \A k \in LoopNodes :
        /\ lat_nodes[k].rule = "forced" <=>
              /\ lat_i >= lat_args.vesting_years \div dt(lat_args)
              /\ NodeSpot(k) >= lat_args.hurdle_H
              /\ lat_args.tipo_exercicio = American
              /\ NodeSpot(k) >= Mul(lat_args.multiple_M, NodeStrike)
        /\ lat_nodes[k].rule = "forced" => lat_nodes[k].val = NodeIntrinsic(k)
    /\ lat_caller = "_execute_calc" =>
          lat_args.multiple_M = Max(lat_raw_m, Num(1))

\* a layer of a call from _execute_calc with a multiple below 1 in which one
\* node was forced to exercise and another was not
C10_Witness ==
    /\ lat_caller = "_execute_calc"
    /\ lat_raw_m < Num(1)
    /\ \E k \in LoopNodes : lat_nodes[k].rule = "forced"
    /\ \E k \in LoopNodes : lat_nodes[k].rule = "rational"

\* the input item of a result row
ItemOf(row) == CHOOSE item \in {pass_inputs[i] : i \in 1..Len(pass_inputs)} :
                   item.TrancheID = row.Tranche

RECURSIVE SumWeighted(_)
SumWeighted(rows) ==
    IF rows = << >> THEN 0 ELSE rows[1].FV_Ponderado + SumWeighted(Tail(rows))

\* C5: after every pricing pass each result row has weighted fair value =
\* unit fair value x the proportion of its tranche, and the total reported is
\* the sum of the weighted fair values of the rows, also when the pricing of
\* some tranche failed.
C5_WeightedAndTotal ==
    pass_pc = "done" =>
        /\ \A k \in 1..Len(res_data) :
              /\ \E i \in 1..Len(pass_inputs) : pass_inputs[i].TrancheID = res_data[k].Tranche
              /\ res_data[k].FV_Ponderado = Mul(res_data[k].FV_Unit, ItemOf(res_data[k]).Prop)
        /\ total_fv = SumWeighted(res_data)

\* a pass in which one tranche failed, another was priced at a non-zero
\* value, and the weight is not 1
C5_Witness ==
    /\ pass_pc = "done"
    /\ pass_errors > 0
    /\ Len(res_data) > 0
    /\ \E k \in 1..Len(res_data) :
          res_data[k].FV_Unit # 0 /\ res_data[k].FV_Ponderado # res_data[k].FV_Unit

\* C6: a pricing pass over n tranches yields exactly n result rows in
\* tranche order, each with a unit and a weighted fair value, and the total;
\* every one of these values is non-negative and finite.
C6_OneRowPerTranche ==
    pass_pc # "idle" =>
        /\ pass_pc = "done"
        /\ Len(res_data) = Len(pass_inputs)
        /\ \A k \in 1..Len(res_data) :
              /\ res_data[k].Tranche = pass_inputs[k].TrancheID
              /\ res_data[k].FV_Unit >= 0
              /\ res_data[k].FV_Ponderado >= 0
        /\ total_fv >= 0

\* hold_values[k] of the iteration that takes the layer in lat_nodes to the
\* layer of step lat_i - 1
StepHold(k) ==
    Mul(Exp(-Mul(lat_args.r, dt(lat_args))),
        Mul(lat_grid.p, lat_nodes[k].val) + Mul(Scale - lat_grid.p, lat_nodes[k + 1].val))

\* S_node[k], S_exerc[k] - K_curr floored at 0, and K_curr of that iteration
StepSpot(k) == Mul(lat_args.S, Exp((lat_i - 1 - 2 * (k - 1)) * log_u(lat_args)))

StepStrike == K_at(lat_args, (lat_i - 1) * dt(lat_args))

StepIntrinsic(k) == Max(after_lockup(lat_args, StepSpot(k)) - StepStrike, 0)

\* the value the exercise logic (multiple M, rational exercise, European
\* style) gives the node
StepExercise(k) ==
    final_node_val(lat_args, force_exercise_mask(lat_args, StepSpot(k), StepStrike),
                   Mul(Scale - Exp(-Mul(lat_args.turnover_w, dt(lat_args))), StepIntrinsic(k))
                       + Mul(Exp(-Mul(lat_args.turnover_w, dt(lat_args))), StepHold(k)),
                   StepIntrinsic(k)).val

\* an iteration of the backward loop
IsBackwardStep == lat_pc = "loop" /\ lat_i > 0 /\ lat_i' = lat_i - 1

\* C11: at every post-vesting node of the backward loop with spot below the
\* hurdle the node value is retention probability x hold value, whatever the
\* exercise style and even when spot >= M x strike; at nodes with spot at or
\* above the hurdle the value of the exercise logic is kept unchanged.
C11_HurdleGate ==
    [][IsBackwardStep /\ lat_i - 1 >= Nv(lat_args) =>
          \A k \in 1..lat_i :
              lat_nodes'[k].val =
                  IF StepSpot(k) < lat_args.hurdle_H
                  THEN Mul(Exp(-Mul(lat_args.turnover_w, dt(lat_args))), StepHold(k))
                  ELSE StepExercise(k)]_vars

\* a post-vesting node below the hurdle of an American call at which the
\* forced-exercise condition holds and whose value is not the intrinsic value,
\* in a layer that also has a node above the hurdle
C11_Witness ==
    /\ lat_pc \in {"loop", "returned"}
    /\ lat_args.tipo_exercicio = American
    /\ lat_i >= Nv(lat_args)
    /\ \E k \in LoopNodes :
          /\ NodeSpot(k) < lat_args.hurdle_H
          /\ NodeSpot(k) >= Mul(lat_args.multiple_M, NodeStrike)
          /\ lat_nodes[k].rule = "below_hurdle"
          /\ lat_nodes[k].val # NodeIntrinsic(k)
    /\ \E k \in LoopNodes : NodeSpot(k) >= lat_args.hurdle_H

\* C12: at every node of a step below the vesting index Nv the node value is
\* exactly retention probability x hold value with retention probability
\* e^(-turnover_rate * dt): intrinsic value, multiple, exercise style and
\* hurdle play no part.
C12_PreVesting ==
    [][IsBackwardStep /\ lat_i - 1 < Nv(lat_args) =>
          \A k \in 1..lat_i :
              lat_nodes'[k].val =
                  Mul(Exp(-Mul(lat_args.turnover_w, dt(lat_args))), StepHold(k))]_vars

\* a pre-vesting layer of an American call with a node at which
\* spot >= M x strike and the intrinsic value is positive, and a turnover
\* rate that makes the retention probability less than 1
C12_Witness ==
    /\ lat_pc \in {"loop", "returned"}
    /\ lat_args.tipo_exercicio = American
    /\ lat_i < Nv(lat_args)
    /\ lat_args.turnover_w > 0
    /\ \E k \in LoopNodes :
          /\ NodeSpot(k) >= Mul(lat_args.multiple_M, NodeStrike)
          /\ NodeIntrinsic(k) > 0
          /\ lat_nodes[k].rule = "pre_vesting"
          /\ lat_nodes[k].val # NodeIntrinsic(k)

\* C13: the risk-neutral probability p used in the backward induction lies
\* in [0, 1] for all inputs, so that p and 1 - p are both valid weights.
C13_ProbabilityClamped ==
    lat_pc \in {"loop", "returned"} => (lat_grid.p >= 0 /\ lat_grid.p <= Scale)

\* round(x / y) for x >= 0 and y > 0
RoundDiv(x, y) == (2 * x + y) \div (2 * y)

\* C14: the vesting step index Nv equals round(vesting_years / dt) and lies
\* in [0, steps], also when vesting_years exceeds T_years.
C14_VestingIndex ==
    lat_pc \in {"loop", "returned"} =>
        /\ lat_grid.Nv = RoundDiv(lat_args.vesting_years, dt(lat_args))
        /\ lat_grid.Nv >= 0
        /\ lat_grid.Nv <= lat_grid.N

\* C15: the engine never evaluates the tree with u = d or dt = 0: with
\* volatility <= eps it returns max(S*e^(-qT) - K*e^(-rT), 0) and with
\* T_years <= eps it returns max(S - K, 0), in both cases without a tree.
C15_ShortCircuits ==
    lat_pc # "idle" =>
        /\ lat_pc # "raised"
        /\ lat_args.vol <= EPSILON =>
              /\ lat_pc = "returned"
              /\ lat_nodes = << >>
              /\ lat_ret = Max(Mul(lat_args.S, Exp(-Mul(lat_args.q, lat_args.T_years)))
                               - Mul(lat_args.K, Exp(-Mul(lat_args.r, lat_args.T_years))), 0)
        /\ (lat_args.vol > EPSILON /\ lat_args.T_years <= EPSILON) =>
              /\ lat_pc = "returned"
              /\ lat_nodes = << >>
              /\ lat_ret = Max(lat_args.S - lat_args.K, 0)

\* C16: the step count lies in [50, 2500], the backward loop runs one
\* iteration per step from steps - 1 down to 0 over layers of i + 1 nodes,
\* and the call ends by returning the root value.
C16_BoundedStepsAndReturn ==
    lat_pc # "idle" =>
        /\ total_steps(lat_args) >= 50
        /\ total_steps(lat_args) <= 2500
        /\ lat_pc \in {"loop", "returned"}
        /\ lat_i \in 0..total_steps(lat_args)
        /\ Len(lat_nodes) = lat_i + 1
        /\ lat_pc = "returned" => (lat_i = 0 /\ lat_ret = lat_nodes[1].val)

\* the vesting date of an RSU item: _render_rsu puts it under "T",
\* _render_detailed_tranches_view under "Vesting"
RsuVesting(item) == IF pass_handler = "_execute_calc" THEN item.T ELSE item.Vesting

\* the volatility the handler hands to the engines
VolDecimal(item) == IF pass_handler = "_execute_calc" THEN item.Vol \div 100 ELSE item.Vol

\* S * e^(-q * vesting_date) less the lockup discount on it when lockup > 0
RsuValue(item) ==
    LET base == Mul(item.S, Exp(-Mul(item.q, RsuVesting(item))))
    IN  IF item.Lockup > 0
        THEN base - lockup_discount(VolDecimal(item), item.Lockup, base, item.q).ret
        ELSE base

\* C17: with the RSU model every tranche is priced as S*e^(-q*vesting_date)
\* minus the lockup discount on that base value when lockup_years > 0, and
\* the pricing completes with a value for lockup_years = 0 and > 0 alike.
C17_RsuPricing ==
    (pass_pc # "idle" /\ pass_model = "RSU") =>
        /\ pass_pc = "done"
        /\ Len(res_data) = Len(pass_inputs)
        /\ \A k \in 1..Len(res_data) :
              /\ res_data[k].Tranche = pass_inputs[k].TrancheID
              /\ res_data[k].FV_Unit = RsuValue(pass_inputs[k])

\* the lattice arguments of a tranche: vesting_years = vesting date,
\* T_years = expiration date
TrancheLatticeArgs(item) ==
    [S |-> item.S, K |-> item.K, r |-> item.r, vol |-> VolDecimal(item), q |-> item.q,
     vesting_years |-> item.Vesting, turnover_w |-> item.Turnover,
     multiple_M |-> IF pass_handler = "_execute_calc" THEN mul_m(item.M) ELSE item.M,
     hurdle_H |-> 0, T_years |-> item.T, inflacao_anual |-> item.StrikeCorr,
     lockup_years |-> item.Lockup, tipo_exercicio |-> American]

\* C18: with the Binomial model every tranche is priced by a call to the
\* lattice engine with vesting_years = its vesting date and T_years = its
\* expiration date, and the value of that call is the tranche's unit fair
\* value.
C18_BinomialPricing ==
    (pass_pc # "idle" /\ pass_model = "BINOMIAL") =>
        /\ pass_pc = "done"
        /\ Len(res_data) = Len(pass_inputs)
        /\ \A k \in 1..Len(res_data) :
              /\ res_data[k].Tranche = pass_inputs[k].TrancheID
              /\ ~binomial_raises(TrancheLatticeArgs(pass_inputs[k]))
              /\ res_data[k].FV_Unit = binomial_root(TrancheLatticeArgs(pass_inputs[k]))

\* a negative time, a negative volatility or a proportion outside [0, 1]
InvalidItem(item) ==
    \/ item.T < 0
    \/ item.Vesting < 0
    \/ item.Vol < 0
    \/ item.Prop < 0
    \/ item.Prop > Scale

\* C19: a tranche with a negative time, a negative volatility or a
\* proportion outside [0, 1] is rejected with an error, and no fair value is
\* computed or added to the total for it.
C19_InvalidRejected ==
    pass_pc # "idle" =>
        \A i \in 1..Len(pass_inputs) :
            InvalidItem(pass_inputs[i]) =>
                /\ pass_pc = "raised" \/ pass_errors > 0
                /\ \A k \in 1..Len(res_data) : res_data[k].Tranche # pass_inputs[i].TrancheID

\* the outcome of pricing the item on its own
Alone(item) ==
    IF pass_handler = "_execute_calc" THEN calc_fv(item, pass_model)
    ELSE restore_fv(item, pass_model)

RECURSIVE SumAlone(_)
SumAlone(items) ==
    IF items = << >> THEN 0
    ELSE (IF Alone(items[1]).ok THEN Mul(Alone(items[1]).fv, items[1].Prop) ELSE 0)
         + SumAlone(Tail(items))

\* C20: the unit fair value of a tranche is the one its own inputs and the
\* model give, whatever other tranches are in the list, the ones whose
\* pricing fails included, and in whatever order; the rows and the total are
\* those of the tranches priced one by one.
C20_TranchesIndependent ==
    pass_pc # "idle" =>
        /\ \A i \in 1..Len(pass_inputs) :
              Alone(pass_inputs[i]).ok =>
                  \E k \in 1..Len(res_data) :
                      /\ res_data[k].Tranche = pass_inputs[i].TrancheID
                      /\ res_data[k].FV_Unit = Alone(pass_inputs[i]).fv
        /\ \A k \in 1..Len(res_data) :
              \E i \in 1..Len(pass_inputs) :
                  /\ res_data[k].Tranche = pass_inputs[i].TrancheID
                  /\ Alone(pass_inputs[i]).ok
        /\ total_fv = SumAlone(pass_inputs)

\* C21: select_model does not mutate the plan object it is given: after the
\* call every field of the input, model_recommended and
\* methodology_rationale included, has its pre-call value.  analysis is the
\* object handed to the call, which the call also returns.
C21_InputNotMutated ==
    sel_calls = 1 => analysis = sel_input

\* the accounting warnings in a rationale
Warnings(text) == {i \in DOMAIN text : IsWarning(text[i])}

\* C27: after select_model on a cash-settled or hybrid plan the rationale
\* contains the remeasurement warning whichever branch is taken, and contains
\* it once however many times select_model is applied.
C27_LiabilityWarningOnce ==
    (sel_calls > 0 /\ sel_status = "returned" /\ is_liability(sel_input)) =>
        Cardinality(Warnings(analysis.methodology_rationale)) = 1

C22_ExpirationAfterVesting ==
    \A ts \in {st_tranches} \cup {st_analysis[i].tranches : i \in DOMAIN st_analysis} :
        \A k \in DOMAIN ts :
            ~IsNone(ts[k].expiration_date) =>
                ts[k].expiration_date[1] >= ts[k].vesting_date

\* C23: a pricing pass changes neither the editable tranche list nor the
\* stored analysis; of the session state only the stored results change.
C23_PassLeavesTranches ==
    [][(pass_pc = "idle" /\ pass_pc' # "idle") =>
          /\ st_tranches' = st_tranches
          /\ st_analysis' = st_analysis]_vars

\* a pass of _execute_calc_restore over two tranches that stored its results
C23_Witness ==
    /\ pass_pc = "done"
    /\ pass_handler = "_execute_calc_restore"
    /\ Len(st_tranches) >= 2
    /\ Len(pass_inputs) = Len(st_tranches)
    /\ calc_results # << >>
    /\ \E k \in DOMAIN st_tranches : st_tranches[k].proportion # 0

C30_AddThenRemove ==
    /\ remove_last_tranche_action(add_tranche_action(st_tranches)) = st_tranches
    /\ remove_last_tranche_action(<< >>) = << >>
    /\ st_tranches = << >> => remove_last_tranche_action(st_tranches) = st_tranches

\* a list of at least two tranches whose last one is the tranche
\* add_tranche_action builds after the one before it
C30_Witness ==
    /\ st_analysis # None
    /\ Len(st_tranches) >= 2
    /\ st_tranches[Len(st_tranches)] =
          Tranche(st_tranches[Len(st_tranches) - 1].vesting_date + Num(1), 0, Some(Num(10)))
    /\ st_tranches[1].proportion # 0

\* C24: with turnover_w = 0, European exercise, lockup_years = 0 (no hurdle,
\* no strike correction) the lattice returns a value within 1% of bs_call
\* for the same S, K, T, r, sigma, q.
C24_ConvergesToBlackScholes ==
    (/\ lat_pc \in {"returned", "raised"}
     /\ lat_caller = "direct"
     /\ lat_args.tipo_exercicio = European
     /\ lat_args.turnover_w = 0
     /\ lat_args.lockup_years = 0
     /\ lat_args.hurdle_H = 0
     /\ lat_args.inflacao_anual = 0) =>
        /\ lat_pc = "returned"
        /\ LET bs == bs_call(lat_args.S, lat_args.K, lat_args.T_years, lat_args.r,
                             lat_args.vol, lat_args.q).ret
           IN  Abs(lat_ret - bs) * 100 <= bs

DigitValue(c) == CHOOSE n \in 0..9 : Digit(n) = c

IsDigit(c) == \E n \in 0..9 : Digit(n) = c

\* text is "R$ ", an optional sign, digits in groups of three separated by
\* ".", a decimal "," and two digits
IsBrl(text) ==
    /\ Len(text) >= 7
    /\ SubSeq(text, 1, 3) = <<"R", "$", " ">>
    /\ LET signed == SubSeq(text, 4, Len(text))
           num == IF signed[1] = "-" THEN Tail(signed) ELSE signed
           ip == SubSeq(num, 1, Len(num) - 3)
       IN  /\ Len(num) >= 4
           /\ num[Len(num) - 2] = ","
           /\ IsDigit(num[Len(num) - 1])
           /\ IsDigit(num[Len(num)])
           /\ \A k \in DOMAIN ip :
                 IF (Len(ip) - k + 1) % 4 = 0 THEN ip[k] = "." ELSE IsDigit(ip[k])

RECURSIVE DigitsValue(_)
DigitsValue(text) ==
    IF text = << >> THEN 0
    ELSE LET c == text[Len(text)]
             front == SubSeq(text, 1, Len(text) - 1)
         IN  IF IsDigit(c) THEN DigitsValue(front) * 10 + DigitValue(c)
             ELSE DigitsValue(front)

\* the amount in hundredths a BRL text stands for
BrlCents(text) ==
    IF Contains(text, "-") THEN -DigitsValue(text) ELSE DigitsValue(text)

\* C25: the fair-value table has one row per result, in the order of the
\* results; the fv_final of a row is the 'FV Unit' of its result in BRL
\* format, its modelo is the methodology given in the manual inputs, and
\* programa.metodologia is that methodology.
C25_FairValueTable ==
    rep_context # NoCall =>
        LET rows == rep_context.tabelas.resultados_fair_value
            results == rep_args.calc_results
            given == rep_args.manual_inputs.metodologia
        IN  /\ Len(rows) = Len(results)
            /\ \A i \in DOMAIN rows :
                  /\ IsBrl(rows[i].fv_final)
                  /\ Abs(BrlCents(rows[i].fv_final) * (Scale \div 100) - results[i].FV_Unit)
                        <= Scale \div 200
                  /\ ~IsNone(given) => rows[i].modelo = given[1]
            /\ ~IsNone(given) => rep_context.programa.metodologia = given[1]

\* a context of two results of different values, one of them above a
\* thousand, with the methodology given
C25_Witness ==
    /\ rep_context # NoCall
    /\ Len(rep_args.calc_results) = 2
    /\ rep_args.calc_results[1].FV_Unit > Num(1000)
    /\ rep_args.calc_results[2].FV_Unit < 0
    /\ rep_args.manual_inputs.metodologia = Some("MONTE_CARLO")
    /\ Len(rep_context.tabelas.resultados_fair_value) = 2

\* C26: for a plan with a market condition the context has a
\* regras.texto_performance entry that mentions 'condições de mercado (TSR)'.
C26_PerformanceText ==
    (rep_context # NoCall /\ rep_args.analysis.has_market_condition) =>
        /\ "texto_performance" \in DOMAIN rep_context.regras
        /\ Contains(rep_context.regras.texto_performance, "condições de mercado (TSR)")

=============================================================================
